---- MODULE Spec2Model ----
(***************************************************************************)
(* A model of sushichef.py (sushi-chef-ciencia-nasa).                      *)
(*                                                                         *)
(* Two specifications share the module:                                    *)
(*   Spec         the chef's run: CienciaNasaChef.scrape -> Browser.run -> *)
(*                Topic -> Topic.articles -> TopicPage -> Topic.to_node    *)
(*   SpecArticle  one Article driven through to_file and to_node, with the *)
(*                YouTubeResource and File downloads it performs           *)
(*                                                                         *)
(* URLs are sequences of string tokens, so that the string operations of   *)
(* the code (concatenation, format, strip, split, replace, startswith)     *)
(* are modelled by what they do to the text.                               *)
(***************************************************************************)
EXTENDS Integers, Sequences, FiniteSets, TLC

VARIABLES
    \* ---- the chef's run (Spec) ----
    listing,        \* the site: the rows of each listing page (input)
    pc,             \* position of the run
    tree_nodes,     \* Topic.tree_nodes, an OrderedDict as a sequence of <<key, node>>
    page,           \* local `page` of Topic.articles
    articles,       \* local `articles` of Topic.articles
    requests,       \* the source_ids handed to download(), in order
    printed,        \* what TopicPage.articles printed (row urls)
    stubs,          \* what TopicPage.articles handed back to Topic.articles
    yielded,        \* the nodes Browser.run yielded
    channel_tree,   \* children of the channel_tree scrape returns
    fetched,        \* per request: what download() returned, after how many failed tries
    run_raised,     \* the exception that left scrape, if any
    \* ---- one article (SpecArticle) ----
    body,           \* the article page: whether it has the body container, and its tags (input)
    DOWNLOAD_VIDEOS,\* the module flag scrape clears for --download-video 0 (input)
    apc,            \* position of the article's processing
    filepath,       \* Article.filepath
    todo,           \* the urls the running build_*_nodes loop has still to visit
    res,            \* the YouTubeResource or File at hand
    i,              \* loop index of YouTubeResource.download
    log,            \* per engine invocation of the download at hand: its outcome and
                    \* the state of the output file after it
    disk,           \* the files on disk: <<path, "full" | "empty">>
    video_nodes,    \* the list build_video_nodes builds and to_file keeps
    pdf_nodes,      \* the list build_pdfs_nodes builds and to_file keeps
    html,           \* the body after clean and to_local_images, and the download map
    archive,        \* entries written to the article's zip
    raised,         \* the exception that left to_file, if any
    node            \* what Article.to_node returned

crawlVars == <<listing, pc, tree_nodes, page, articles, requests, printed, stubs,
               yielded, channel_tree, fetched, run_raised>>

articleVars == <<body, DOWNLOAD_VIDEOS, apc, filepath, todo, res, i, log, disk,
                 video_nodes, pdf_nodes, html, archive, raised, node>>

vars == <<crawlVars, articleVars>>

None == "None"

-----------------------------------------------------------------------------
\* Bounds of the model

MaxPages == 3
MaxRows == 2

-----------------------------------------------------------------------------
\* Module constants of sushichef.py

BASE_URL == <<"https://ciencia.nasa.gov", "/">>

DATA_DIR == <<"chefdata">>

CHANNEL_LANGUAGE == "es"

\* TOPICS.items() sorted by title, as Browser.run iterates them
TOPICS ==
    << <<"Ciencia Especial", "ciencias-espaciales">>,
       <<"Ciencia Fisica", "ciencias-f%C3%ADsicas">>,
       <<"Ciencia Terrestre", "ciencias-de-la-tierra">>,
       <<"Miscelanea", "m%C3%A1s-all%C3%A1-de-la-coheter%C3%ADa">> >>

Range(s) == {s[k] : k \in 1..Len(s)}

\* the first token of an absolute url
Origins == {"https://ciencia.nasa.gov", "https://www.", "https://cdn.example"}

\* urllib.parse.urljoin(base, url) for a base that is a site root ending in
\* "/": an absolute url is kept, a url starting with "/" replaces the path
\* of the base, any other url is appended to the base.
urljoin(base, url) ==
    IF url = <<>> THEN base
    ELSE IF url[1] \in Origins THEN url
    ELSE IF url[1] = "/" THEN <<base[1]>> \o url
    ELSE base \o url

-----------------------------------------------------------------------------
\* The site

ArticleHrefs == {<<"/", "art-a">>, <<"/", "art-b">>}

SeqsUpTo(S, n) == UNION {[1..k -> S] : k \in 0..n}

Rows(n) == [k \in 1..n |-> <<"/", "art-a">>]

\* the listing of the specification's example: row counts 5, 3, 1, 99
ExampleListing == <<Rows(5), Rows(3), Rows(1), Rows(99)>>

Listings == SeqsUpTo(SeqsUpTo(ArticleHrefs, MaxRows), MaxPages) \cup {ExampleListing}

\* the rows of page n of the site (pages are numbered from 0); a page past
\* the end of the listing has no rows
RowsOfPage(l, n) == IF n + 1 \in 1..Len(l) THEN l[n + 1] ELSE <<>>

\* The page the site serves for a listing url: the value of its page
\* parameter, the first page when the parameter is empty.
SitePage(source_id) ==
    IF source_id[Len(source_id)] = "?page=" THEN 0
    ELSE CHOOSE n \in 0..(MaxPages + 1) : ToString(n) = source_id[Len(source_id)]

-----------------------------------------------------------------------------
\* download(source_id)

\* while tries < 4
MaxTries == 4

\* the exceptions of downloader.read that download() catches
DownloadFailures == {"HTTPError", "ConnectionError", "TooManyRedirects"}

\* what downloader.read does on each of the tries of one call of download()
DownloadScripts == [1..MaxTries -> DownloadFailures \cup {"ok"}]

\* download from try number `tries` on: a try that raises one of the caught
\* exceptions is counted and the loop goes on, a try that returns ends the
\* call with the document; after 4 failed tries the call returns False.
RECURSIVE download_from(_, _)
download_from(script, tries) ==
    IF tries < MaxTries
    THEN IF script[tries + 1] = "ok"
         THEN [document |-> "document", tries |-> tries]
         ELSE download_from(script, tries + 1)
    ELSE [document |-> "False", tries |-> tries]

download_call(script) == download_from(script, 0)

\* to_soup of Topic and of TopicPage: the document goes to BeautifulSoup
\* unless it is None. False is not None, and BeautifulSoup takes len() of a
\* markup that is no file object: TypeError.
to_soup(document) ==
    IF document /= "None"
    THEN IF document = "False"
         THEN [soup |-> "None", raised |-> "TypeError"]
         ELSE [soup |-> "soup", raised |-> "None"]
    ELSE [soup |-> "None", raised |-> "None"]

-----------------------------------------------------------------------------
\* Topic and TopicPage

\* TopicPage.__init__: "?page=".format(page). The template holds no
\* replacement field, so format returns it unchanged and drops its argument.
FormatPageQuery(p) == <<"?page=">>

TopicPage_source_id(topic_source_id, p) == topic_source_id \o FormatPageQuery(p)

\* TopicPage.articles: the loop body prints the first row and breaks; the
\* method has no yield and no return statement, so its value is None.
\* <<rows printed, value returned>>
TopicPage_articles(rows) ==
    << IF Len(rows) > 0 THEN <<rows[1]>> ELSE <<>>, None >>

\* list(self.tree_nodes.values())
OrderedDictValues(d) == [k \in 1..Len(d) |-> d[k][2]]

Topic_to_node(title, description, nodes) ==
    [kind |-> "topic", source_id |-> title, title |-> title,
     children |-> OrderedDictValues(nodes)]

CurrentTopic == TOPICS[1]

Topic_source_id == urljoin(BASE_URL, <<CurrentTopic[2]>>)

-----------------------------------------------------------------------------
\* The chef's run

InitCrawl ==
    /\ listing \in Listings
    /\ pc = "scrape"
    /\ tree_nodes = <<>>
    /\ page = 0
    /\ articles = <<1, 2>>
    /\ requests = <<>>
    /\ printed = <<>>
    /\ stubs = <<>>
    /\ yielded = <<>>
    /\ channel_tree = <<>>
    /\ fetched = <<>>
    /\ run_raised = "None"

\* scrape up to the first step of the generator Browser.run: the channel
\* tree is built with no children, and Topic(title, url) is constructed for
\* the first topic in title order. Topic.__init__ fetches the topic's url
\* through to_soup; an exception of to_soup leaves __init__, Browser.run and
\* scrape, none of which catches it.
Topic_init ==
    /\ pc = "scrape"
    /\ requests' = Append(requests, Topic_source_id)
    /\ tree_nodes' = <<>>
    /\ \E script \in DownloadScripts :
        LET got == download_call(script)
        IN /\ fetched' = Append(fetched, got)
           /\ \/ /\ to_soup(got.document).raised /= "None"
                 /\ run_raised' = to_soup(got.document).raised
                 /\ pc' = "raised"
              \/ /\ to_soup(got.document).raised = "None"
                 /\ pc' = "articles"
                 /\ UNCHANGED run_raised
    /\ UNCHANGED <<listing, page, articles, printed, stubs, yielded, channel_tree>>
    /\ UNCHANGED articleVars

\* Topic.articles: the while condition holds on entry (articles = [1, 2]);
\* the body builds TopicPage(self, page=0), irrespective of `page`, calls its
\* articles(), increments page and breaks. TopicPage.__init__ fetches the
\* page through to_soup; an exception of to_soup leaves Topic.articles,
\* Browser.run and scrape.
Topic_articles ==
    /\ pc = "articles"
    /\ Len(articles) > 1
    /\ \E script \in DownloadScripts :
        LET sid == TopicPage_source_id(Topic_source_id, 0)
            doc == download_call(script)
            got == TopicPage_articles(RowsOfPage(listing, SitePage(sid)))
        IN /\ requests' = Append(requests, sid)
           /\ fetched' = Append(fetched, doc)
           /\ \/ /\ to_soup(doc.document).raised /= "None"
                 /\ run_raised' = to_soup(doc.document).raised
                 /\ pc' = "raised"
                 /\ UNCHANGED <<printed, articles, stubs, page>>
              \/ /\ to_soup(doc.document).raised = "None"
                 /\ printed' = printed \o got[1]
                 /\ articles' = got[2]
                 /\ stubs' = IF got[2] = None THEN stubs ELSE stubs \o got[2]
                 /\ page' = page + 1
                 /\ pc' = "to_node"
                 /\ UNCHANGED run_raised
    /\ UNCHANGED <<listing, tree_nodes, yielded, channel_tree>>
    /\ UNCHANGED articleVars

\* Browser.run: yield topic.to_node(); scrape prints the node
Browser_run_yield ==
    /\ pc = "to_node"
    /\ yielded' = Append(yielded, Topic_to_node(CurrentTopic[1], None, tree_nodes))
    /\ pc' = "yielded"
    /\ UNCHANGED <<listing, tree_nodes, page, articles, requests, printed, stubs,
                   channel_tree, fetched, run_raised>>
    /\ UNCHANGED articleVars

\* Browser.run resumes after the yield and breaks out of the loop over
\* TOPICS; scrape's for loop ends and scrape returns channel_tree.
scrape_return ==
    /\ pc = "yielded"
    /\ pc' = "done"
    /\ UNCHANGED <<listing, tree_nodes, page, articles, requests, printed, stubs,
                   yielded, channel_tree, fetched, run_raised>>
    /\ UNCHANGED articleVars

NextCrawl ==
    \/ Topic_init
    \/ Topic_articles
    \/ Browser_run_yield
    \/ scrape_return

-----------------------------------------------------------------------------
\* The article page

MaxTags == 2

\* range(4) of YouTubeResource.download
MaxAttempts == 4

NoPath == <<>>

ARTICLE_TITLE == "Siga al Sol"

ARTICLE_URL == BASE_URL \o <<"siga-al-sol">>

\* the base_path the caller hands to Article.to_file
BASE_PATH == DATA_DIR \o <<"/", "test">>

WatchUrl == <<"https://www.", "youtube", ".com/", "watch", "?", "v=", "abc">>
EmbedUrl == <<"https://www.", "youtube", ".com/", "embed/", "abc", "?", "rel=0">>
ChannelUrl == <<"https://www.", "youtube", ".com/", "user", "/", "NASA">>
PdfRel == <<"/", "docs", "/", "a", ".pdf">>
PdfAbs == <<"https://ciencia.nasa.gov", "/", "docs", "/", "a", ".pdf">>
ImgRel == <<"/", "img", "/", "a.png">>
ImgAbs == <<"https://ciencia.nasa.gov", "/", "img", "/", "a.png">>
ImgOther == <<"https://cdn.example", "/", "b.png">>

VideoIds == {"abc"}

Tag(name, has, url) == [tag |-> name, has |-> has, url |-> url]

\* the elements a body is made of: anchors with an href, iframes with a src,
\* img elements with or without a src
Tags ==
    {Tag("a", TRUE, u) : u \in {WatchUrl, WatchUrl \o <<"/">>, ChannelUrl, PdfRel, PdfAbs}}
    \cup {Tag("iframe", TRUE, EmbedUrl)}
    \cup {Tag("img", TRUE, u) : u \in {ImgRel, ImgAbs, ImgOther}}
    \cup {Tag("img", FALSE, <<>>)}

Bodies ==
    {[found |-> TRUE, tags |-> t] : t \in SeqsUpTo(Tags, MaxTags)}
    \cup {[found |-> FALSE, tags |-> <<>>]}

-----------------------------------------------------------------------------
\* String helpers on token sequences

\* url.find(tok) != -1
Contains(url, tok) == tok \in Range(url)

\* str.strip(): whitespace tokens at both ends are dropped
RECURSIVE Strip(_)
Strip(url) ==
    IF url = <<>> THEN url
    ELSE IF url[1] = " " THEN Strip(Tail(url))
    ELSE IF url[Len(url)] = " " THEN Strip(SubSeq(url, 1, Len(url) - 1))
    ELSE url

\* "".join(url.split("?")[:1]): the text before the first "?"
BeforeQuery(url) ==
    IF Contains(url, "?")
    THEN SubSeq(url, 1, (CHOOSE k \in 1..Len(url) :
                            url[k] = "?" /\ \A j \in 1..(k - 1) : url[j] /= "?") - 1)
    ELSE url

\* url.replace("embed/", "watch?v=")
RECURSIVE ReplaceEmbed(_)
ReplaceEmbed(url) ==
    IF url = <<>> THEN <<>>
    ELSE (IF url[1] = "embed/" THEN <<"watch", "?", "v=">> ELSE <<url[1]>>)
         \o ReplaceEmbed(Tail(url))

\* utils.get_name_from_url: the last path segment of the url
get_name_from_url(url) ==
    LET slashes == {k \in 1..Len(url) : url[k] = "/"}
        last == IF slashes = {} THEN 0
                ELSE CHOOSE k \in slashes : \A j \in slashes : j <= k
    IN SubSeq(url, last + 1, Len(url))

-----------------------------------------------------------------------------
\* YouTubeResource

YouTubeResource_is_youtube(url) ==
    /\ Contains(url, "youtube") \/ Contains(url, "youtu.be")
    /\ ~Contains(url, "user")
    /\ ~Contains(url, "/c/")

YouTubeResource_transform_embed(url) == Strip(ReplaceEmbed(BeforeQuery(url)))

YouTubeResource_clean_url(url) ==
    Strip(IF url[Len(url)] = "/" THEN SubSeq(url, 1, Len(url) - 1) ELSE url)

NoNode == [kind |-> "None", source_id |-> <<>>, title |-> "", path |-> NoPath,
           children |-> <<>>]

Node(kind, source_id, title, path) ==
    [kind |-> kind, source_id |-> source_id, title |-> title, path |-> path,
     children |-> <<>>]

NoRes == [kind |-> "None", url |-> <<>>, source_id |-> <<>>, filename |-> <<>>,
          filepath |-> NoPath, stage |-> "None", resp |-> "None", node |-> NoNode,
          before |-> 0]

\* YouTubeResource(video_url, lang=self.lang): embeded is False, so the
\* source_id is clean_url(source_id); filepath and filename start as None
YouTubeResource_init(url, before) ==
    [NoRes EXCEPT !.kind = "video", !.url = url,
                  !.source_id = YouTubeResource_clean_url(url),
                  !.stage = "downloading", !.before = before]

\* The extraction engine (youtube_dl), per invocation by get_video_info:
\*   "full"      info returned, a non-empty file left at <download_to>/<id>.mp4
\*   "empty"     info returned, a 0-byte file left at that path
\*   "nofile"    info returned, nothing written at that path
\*   "terminal"  DownloadError, ContentTooShortError, ExtractorError or KeyError:
\*               get_video_info logs it and returns None
\*   "retryable" ValueError, IOError, OSError, URLError or ConnectionResetError:
\*               get_video_info lets it through
\* The engine downloads into a temporary file that it renames when the
\* download is complete, so an invocation that fails leaves nothing at the
\* output path; and it does not replace a complete file by an empty one.
EngineOutcomes == {"full", "empty", "nofile", "terminal", "retryable"}

\* the id of the info the engine returns for a video url
EngineInfoId(source_id) == CHOOSE v \in VideoIds : v \in Range(source_id)

\* build_path([DATA_DIR, "videos"])
VIDEOS_PATH == DATA_DIR \o <<"/", "videos">>

\* os.path.join(download_to, "{}.mp4".format(info["id"]))
VideoPath(source_id) == VIDEOS_PATH \o <<"/", EngineInfoId(source_id), ".mp4">>

\* what os.stat finds at a path
Present(d, path) ==
    IF <<path, "full">> \in d THEN "full"
    ELSE IF <<path, "empty">> \in d THEN "empty"
    ELSE "absent"

EngineWrites(d, path, out) ==
    IF out \in {"full", "empty"}
    THEN {f \in d : f[1] /= path} \cup {<<path, out>>}
    ELSE d

\* The loop body with a None info taken for a transient failure: the pass
\* ends in the retry branch instead of the else branch.
download_attempt_retry_on_none(r, out, present) ==
    IF out \in {"retryable", "terminal"} THEN [res |-> r, next |-> "retry"]
    ELSE LET r1 == [r EXCEPT !.filepath = VideoPath(r.source_id),
                             !.filename = <<"abc title">>]
         IN IF present = "absent"
            THEN [res |-> r1, next |-> "retry"]
            ELSE IF present = "empty"
            THEN [res |-> [r1 EXCEPT !.filepath = NoPath], next |-> "return"]
            ELSE [res |-> r1, next |-> "return"]

\* The loop body without the st_size == 0 test: the path of a 0-byte file
\* is kept.
download_attempt_keep_empty(r, out, present) ==
    IF out = "retryable" THEN [res |-> r, next |-> "retry"]
    ELSE IF out = "terminal" THEN [res |-> r, next |-> "return"]
    ELSE LET r1 == [r EXCEPT !.filepath = VideoPath(r.source_id),
                             !.filename = <<"abc title">>]
         IN IF present = "absent"
            THEN [res |-> r1, next |-> "retry"]
            ELSE [res |-> r1, next |-> "return"]

\* One pass of the loop body of YouTubeResource.download, given the engine's
\* outcome and what os.stat finds afterwards. next is "retry" when the first
\* except clause caught (the loop goes on), "return" otherwise.
YouTubeResource_download_attempt(r, out, present) ==
    IF out = "retryable" THEN [res |-> r, next |-> "retry"]
    ELSE IF out = "terminal" THEN [res |-> r, next |-> "return"]
    ELSE LET r1 == [r EXCEPT !.filepath = VideoPath(r.source_id),
                             !.filename = <<"abc title">>]
         IN IF present = "absent"
            THEN [res |-> r1, next |-> "retry"]
            ELSE IF present = "empty"
            THEN [res |-> [r1 EXCEPT !.filepath = NoPath], next |-> "return"]
            ELSE [res |-> r1, next |-> "return"]

\* the files entry of the node also lists the subtitles the engine reports;
\* they carry a youtube_id, not a path
YouTubeResource_to_node(r) ==
    IF r.filepath /= NoPath
    THEN Node("video", r.source_id, r.filename[1], r.filepath)
    ELSE NoNode

-----------------------------------------------------------------------------
\* File

DOWNLOAD_FILES == TRUE

File_init(url, name, before) ==
    [NoRes EXCEPT !.kind = "file", !.url = url,
                  !.filename = get_name_from_url(url),
                  !.source_id = IF url[1] = "/" THEN urljoin(BASE_URL, url) ELSE url,
                  !.stage = "downloading", !.before = before]

\* What sess.get does: it raises, or it returns a response with or without
\* a content-type header
NoHeader == <<"(no content-type header)">>

RequestErrors == {"ConnectionError", "ReadTimeout", "TooManyRedirects"}

ContentTypes == {<<"application/pdf">>, <<"application/pdf", "; charset=binary">>,
                 <<"text/html", "; profile=", "application/pdf">>, <<"text/html">>}

FileResponses ==
    {[err |-> e, ct |-> NoHeader] : e \in RequestErrors}
    \cup {[err |-> "None", ct |-> c] : c \in ContentTypes \cup {NoHeader}}

\* build_path([base_path, 'pdfs'])
PdfsPath(base_path) == base_path \o <<"/", "pdfs">>

\* File.download: <<the File afterwards, the exception that leaves it,
\* the path written>>
File_download(f, download, resp, base_path) ==
    IF download = FALSE THEN [res |-> f, raised |-> "None", wrote |-> NoPath]
    ELSE IF resp.err /= "None" THEN [res |-> f, raised |-> "None", wrote |-> NoPath]
    ELSE IF resp.ct = NoHeader
    THEN [res |-> f, raised |-> "TypeError", wrote |-> NoPath]
    ELSE IF Contains(resp.ct, "application/pdf")
    THEN LET p == base_path \o <<"/">> \o f.filename
         IN [res |-> [f EXCEPT !.filepath = p], raised |-> "None", wrote |-> p]
    ELSE [res |-> f, raised |-> "None", wrote |-> NoPath]

File_to_node(f) ==
    IF f.filepath /= NoPath
    THEN Node("document", f.source_id, ARTICLE_TITLE, f.filepath)
    ELSE NoNode

-----------------------------------------------------------------------------
\* Article

Href(t) == IF t.tag = "a" /\ t.has THEN t.url ELSE <<>>

\* get_videos_urls: the hrefs of the tags the lambda accepts (an anchor whose
\* href holds "youtube", or any tag whose href holds "youtu.be"), and the
\* src of every iframe that is_youtube accepts, through transform_embed
Article_get_videos_urls(content) ==
    {Href(content[k]) : k \in {j \in 1..Len(content) :
        \/ content[j].tag = "a" /\ Contains(Href(content[j]), "youtube")
        \/ Contains(Href(content[j]), "youtu.be")}}
    \cup {YouTubeResource_transform_embed(content[k].url) :
            k \in {j \in 1..Len(content) :
                /\ content[j].tag = "iframe"
                /\ YouTubeResource_is_youtube(content[j].url)}}

\* get_pdfs_urls: the hrefs of the anchors whose href ends with ".pdf"
Article_get_pdfs_urls(content) ==
    {Href(content[k]) : k \in {j \in 1..Len(content) :
        /\ content[j].tag = "a"
        /\ Href(content[j]) /= <<>>
        /\ Href(content[j])[Len(Href(content[j]))] = ".pdf"}}

\* Article.clean (utils.link_to_text, remove_links, remove_iframes,
\* remove_scripts): anchors lose their href, iframes are removed
RECURSIVE Article_clean(_)
Article_clean(content) ==
    IF content = <<>> THEN <<>>
    ELSE (IF content[1].tag = "iframe" THEN <<>>
          ELSE IF content[1].tag = "a" THEN <<Tag("a", FALSE, <<>>)>>
          ELSE <<content[1]>>)
         \o Article_clean(Tail(content))

InMap(m, key) == \E k \in 1..Len(m) : m[k][1] = key

\* Article.to_local_images from element k on: content is the body with the
\* img elements rewritten so far, images_urls the dict built so far.
RECURSIVE to_local_images_from(_, _, _)
to_local_images_from(content, k, images_urls) ==
    IF k > Len(content) THEN [content |-> content, images |-> images_urls]
    ELSE IF content[k].tag /= "img" \/ ~content[k].has
    THEN to_local_images_from(content, k + 1, images_urls)
    ELSE LET img_src == IF content[k].url /= <<>> /\ content[k].url[1] = "/"
                        THEN urljoin(BASE_URL, content[k].url)
                        ELSE content[k].url
             filename == get_name_from_url(img_src)
         IN IF ~InMap(images_urls, img_src) /\ img_src /= <<>>
            THEN to_local_images_from([content EXCEPT ![k].url = filename], k + 1,
                                      Append(images_urls, <<img_src, filename>>))
            ELSE to_local_images_from(content, k + 1, images_urls)

Article_to_local_images(content) == to_local_images_from(content, 1, <<>>)

\* "{path}/{name}.zip".format(path=base_path, name=self.title)
Article_filepath(base_path) == base_path \o <<"/", ARTICLE_TITLE, ".zip">>

\* write_index, write_images and write_css_js: the entries of the zip
ArchiveEntries(images) ==
    {<<"index.html">>}
    \cup {images[k][2] : k \in 1..Len(images)}
    \cup {<<"css/", "styles.css">>, <<"js/", "scripts.js">>}

Article_topic_node ==
    [kind |-> "topic", source_id |-> ARTICLE_URL, title |-> ARTICLE_TITLE,
     path |-> NoPath, children |-> <<>>]

Article_html_node(path) == Node("html5", ARTICLE_URL, ARTICLE_TITLE, path)

\* add_to_node: every node of the list that is not None is appended
Article_add_to_node(n, nodes) ==
    [n EXCEPT !.children = n.children \o SelectSeq(nodes, LAMBDA x : x /= NoNode)]

Article_to_node(path, videos, pdfs) ==
    IF Len(videos) > 0 \/ Len(pdfs) > 0
    THEN Article_add_to_node(
            Article_add_to_node(
                [Article_topic_node EXCEPT !.children = <<Article_html_node(path)>>],
                videos),
            pdfs)
    ELSE Article_html_node(path)

-----------------------------------------------------------------------------
\* One article: article.to_file(base_path), then article.to_node()

NoHtml == [content |-> <<>>, images |-> <<>>]

ArticleIdle ==
    /\ body = [found |-> FALSE, tags |-> <<>>]
    /\ DOWNLOAD_VIDEOS = TRUE
    /\ apc = "idle"
    /\ filepath = NoPath
    /\ todo = {}
    /\ res = NoRes
    /\ i = 0
    /\ log = <<>>
    /\ disk = {}
    /\ video_nodes = <<>>
    /\ pdf_nodes = <<>>
    /\ html = NoHtml
    /\ archive = {}
    /\ raised = "None"
    /\ node = NoNode

CrawlIdle ==
    /\ listing = <<>>
    /\ pc = "idle"
    /\ tree_nodes = <<>>
    /\ page = 0
    /\ articles = <<1, 2>>
    /\ requests = <<>>
    /\ printed = <<>>
    /\ stubs = <<>>
    /\ yielded = <<>>
    /\ channel_tree = <<>>
    /\ fetched = <<>>
    /\ run_raised = "None"

InitArticle ==
    /\ body \in Bodies
    /\ DOWNLOAD_VIDEOS \in BOOLEAN
    /\ apc = "to_file"
    /\ filepath = NoPath
    /\ todo = {}
    /\ res = NoRes
    /\ i = 0
    /\ log = <<>>
    /\ disk = {}
    /\ video_nodes = <<>>
    /\ pdf_nodes = <<>>
    /\ html = NoHtml
    /\ archive = {}
    /\ raised = "None"
    /\ node = NoNode

\* to_file up to the loop of build_video_nodes: self.filepath is set, then
\* get_videos_urls(self.body()) is evaluated; on a page without the body
\* container self.body() is None and content.find_all raises AttributeError,
\* which nothing in to_file catches.
to_file_begin ==
    /\ apc = "to_file"
    /\ filepath' = Article_filepath(BASE_PATH)
    /\ \/ /\ ~body.found
          /\ raised' = "AttributeError"
          /\ apc' = "raised"
          /\ UNCHANGED <<todo, video_nodes>>
       \/ /\ body.found
          /\ todo' = Article_get_videos_urls(body.tags)
          /\ video_nodes' = <<>>
          /\ apc' = "videos"
          /\ UNCHANGED raised
    /\ UNCHANGED <<body, DOWNLOAD_VIDEOS, res, i, log, disk, pdf_nodes, html, archive,
                   node>>
    /\ UNCHANGED crawlVars

\* build_video_nodes: the next url of the set; a url is_youtube rejects is
\* passed over, for any other a YouTubeResource is built and download starts
build_video_nodes_next ==
    /\ apc = "videos"
    /\ \E video_url \in todo :
        /\ todo' = todo \ {video_url}
        /\ \/ /\ ~YouTubeResource_is_youtube(video_url)
              /\ UNCHANGED <<res, i, log, apc>>
           \/ /\ YouTubeResource_is_youtube(video_url)
              /\ res' = YouTubeResource_init(video_url, Len(video_nodes))
              /\ i' = 0
              /\ log' = <<>>
              /\ apc' = "download"
    /\ UNCHANGED <<body, DOWNLOAD_VIDEOS, filepath, disk, video_nodes, pdf_nodes, html,
                   archive, raised, node>>
    /\ UNCHANGED crawlVars

\* YouTubeResource.download(download=DOWNLOAD_VIDEOS, base_path): one pass of
\* for i in range(4). The download argument is not read: the engine is
\* invoked with download_to set whatever the flag says.
YouTubeResource_download ==
    /\ apc = "download"
    /\ i < MaxAttempts
    /\ \E out \in EngineOutcomes :
        LET path == VideoPath(res.source_id)
            after == EngineWrites(disk, path, out)
            got == YouTubeResource_download_attempt(res, out, Present(after, path))
            over == got.next = "return" \/ i + 1 >= MaxAttempts
        IN /\ out = "empty" => Present(disk, path) /= "full"
           /\ disk' = after
           /\ log' = Append(log, [out |-> out, present |-> Present(after, path)])
           /\ res' = [got.res EXCEPT !.stage = IF over THEN "downloaded" ELSE @]
           /\ i' = i + 1
           /\ apc' = IF over THEN "video_to_node" ELSE "download"
    /\ UNCHANGED <<body, DOWNLOAD_VIDEOS, filepath, todo, video_nodes, pdf_nodes, html,
                   archive, raised, node>>
    /\ UNCHANGED crawlVars

\* build_video_nodes: node = video.to_node(), appended when it is not None
build_video_nodes_to_node ==
    /\ apc = "video_to_node"
    /\ LET n == YouTubeResource_to_node(res)
       IN /\ res' = [res EXCEPT !.node = n, !.stage = "done"]
          /\ video_nodes' = IF n /= NoNode THEN Append(video_nodes, n) ELSE video_nodes
    /\ apc' = "videos"
    /\ UNCHANGED <<body, DOWNLOAD_VIDEOS, filepath, todo, i, log, disk, pdf_nodes, html,
                   archive, raised, node>>
    /\ UNCHANGED crawlVars

\* build_video_nodes returns; build_pdfs_nodes starts on get_pdfs_urls
build_pdfs_nodes_begin ==
    /\ apc = "videos"
    /\ todo = {}
    /\ todo' = Article_get_pdfs_urls(body.tags)
    /\ pdf_nodes' = <<>>
    /\ apc' = "pdfs"
    /\ UNCHANGED <<body, DOWNLOAD_VIDEOS, filepath, res, i, log, disk, video_nodes, html,
                   archive, raised, node>>
    /\ UNCHANGED crawlVars

\* build_pdfs_nodes: one pass of the loop: File(pdf_url), download, to_node
build_pdfs_nodes_next ==
    /\ apc = "pdfs"
    /\ \E pdf_url \in todo, resp \in FileResponses :
        LET f == File_init(pdf_url, ARTICLE_TITLE, Len(pdf_nodes))
            got == File_download(f, DOWNLOAD_FILES, resp, PdfsPath(BASE_PATH))
            n == File_to_node(got.res)
        IN /\ todo' = todo \ {pdf_url}
           /\ disk' = IF got.wrote /= NoPath
                      THEN EngineWrites(disk, got.wrote, "full") ELSE disk
           /\ \/ /\ got.raised /= "None"
                 /\ raised' = got.raised
                 /\ res' = [got.res EXCEPT !.resp = resp.ct, !.stage = "raised"]
                 /\ apc' = "raised"
                 /\ UNCHANGED pdf_nodes
              \/ /\ got.raised = "None"
                 /\ res' = [got.res EXCEPT !.resp = IF resp.err /= "None"
                                                    THEN <<resp.err>> ELSE resp.ct,
                                           !.node = n, !.stage = "done"]
                 /\ pdf_nodes' = IF n /= NoNode THEN Append(pdf_nodes, n) ELSE pdf_nodes
                 /\ UNCHANGED <<raised, apc>>
    /\ UNCHANGED <<body, DOWNLOAD_VIDEOS, filepath, i, log, video_nodes, html, archive,
                   node>>
    /\ UNCHANGED crawlVars

\* the rest of to_file: clean, to_local_images, write_index, write_images,
\* write_css_js
to_file_write ==
    /\ apc = "pdfs"
    /\ todo = {}
    /\ html' = Article_to_local_images(Article_clean(body.tags))
    /\ archive' = ArchiveEntries(html'.images)
    /\ disk' = EngineWrites(disk, filepath, "full")
    /\ apc' = "written"
    /\ UNCHANGED <<body, DOWNLOAD_VIDEOS, filepath, todo, res, i, log, video_nodes,
                   pdf_nodes, raised, node>>
    /\ UNCHANGED crawlVars

Article_to_node_call ==
    /\ apc = "written"
    /\ node' = Article_to_node(filepath, video_nodes, pdf_nodes)
    /\ apc' = "done"
    /\ UNCHANGED <<body, DOWNLOAD_VIDEOS, filepath, todo, res, i, log, disk, video_nodes,
                   pdf_nodes, html, archive, raised>>
    /\ UNCHANGED crawlVars

NextArticle ==
    \/ to_file_begin
    \/ build_video_nodes_next
    \/ YouTubeResource_download
    \/ build_video_nodes_to_node
    \/ build_pdfs_nodes_begin
    \/ build_pdfs_nodes_next
    \/ to_file_write
    \/ Article_to_node_call

-----------------------------------------------------------------------------
\* The specifications

Init == InitCrawl /\ ArticleIdle

Next == NextCrawl

Spec == Init /\ [][Next]_vars

InitA == InitArticle /\ CrawlIdle

NextA == NextArticle

SpecArticle == InitA /\ [][NextA]_vars

-----------------------------------------------------------------------------
\* Claims about the chef's run (Spec)

\* the requests Topic.articles made through TopicPage (the first request of
\* the run is Topic.__init__'s own)
PageRequests == SubSeq(requests, 2, Len(requests))

\* the first page of a listing with at most one row
FirstSparsePage(l) ==
    CHOOSE k \in 0..Len(l) :
        /\ Len(RowsOfPage(l, k)) <= 1
        /\ \A j \in 0..(k - 1) : Len(RowsOfPage(l, j)) > 1

RECURSIVE RowsUpTo(_, _)
RowsUpTo(l, k) == IF k < 0 THEN 0 ELSE Len(RowsOfPage(l, k)) + RowsUpTo(l, k - 1)

\* C1: Topic.articles requests pages 0, 1, 2, ... in increasing order, each
\* request carrying its own page index, yields one stub per row of every
\* visited page and stops right after the first page with at most one row
\* (row counts 5, 3, 1, 99: pages 0, 1, 2 and 9 stubs).
C1_PaginationStopsAfterSparsePage ==
    pc = "done" =>
        LET k == FirstSparsePage(listing)
        IN /\ PageRequests =
                [n \in 1..(k + 1) |-> Topic_source_id \o <<"?page=", ToString(n - 1)>>]
           /\ Len(stubs) = RowsUpTo(listing, k)

RECURSIVE Concat(_)
Concat(ss) == IF ss = <<>> THEN <<>> ELSE ss[1] \o Concat(Tail(ss))

\* the urls of a sequence in the order of their first occurrence
RECURSIVE FirstOccurrences(_)
FirstOccurrences(s) ==
    IF s = <<>> THEN <<>>
    ELSE LET init == FirstOccurrences(SubSeq(s, 1, Len(s) - 1))
         IN IF s[Len(s)] \in Range(init) THEN init ELSE Append(init, s[Len(s)])

\* the article urls of the rows the site served to the crawl
ServedUrls ==
    LET served == Concat([n \in 1..Len(PageRequests) |->
                            RowsOfPage(listing, SitePage(PageRequests[n]))])
    IN [n \in 1..Len(served) |-> urljoin(BASE_URL, served[n])]

Occurrences(s, u) == Cardinality({n \in 1..Len(s) : s[n] = u})

\* C6: the children of the node Topic.to_node returns hold at most one
\* Article node per source url, and a url repeated in the listing rows has
\* its one entry of Topic.tree_nodes at the position of its first discovery.
C6_OneNodePerSourceUrl ==
    pc = "done" =>
        LET children == yielded[1].children
            ids == [n \in 1..Len(children) |-> children[n].source_id]
            order == FirstOccurrences(ServedUrls)
        IN /\ \A u \in Range(ids) : Occurrences(ids, u) = 1
           /\ \A n \in 1..Len(order) :
                Occurrences(ServedUrls, order[n]) > 1
                    => n <= Len(ids) /\ ids[n] = order[n]

-----------------------------------------------------------------------------
\* Claims about one article (SpecArticle)

ExistingPaths == {f[1] : f \in disk}

\* C2: whatever the attempts of a download did, to_node returns a leaf only
\* if the path of its files entry exists on disk, and only such leaves are in
\* the article's node lists.
C2_LeafFilesExistOnDisk ==
    /\ res.stage = "done" /\ res.node /= NoNode => res.node.path \in ExistingPaths
    /\ \A n \in Range(video_nodes) \cup Range(pdf_nodes) : n.path \in ExistingPaths

\* a failure of an engine invocation that YouTubeResource.download retries:
\* a value, IO, OS or connection-reset error, from the engine or from the
\* stat of an output file that is not there
RetryableFailure(e) ==
    \/ e.out = "retryable"
    \/ e.out = "nofile" /\ e.present = "absent"

LeadingRetryable(l) ==
    Cardinality({k \in 1..Len(l) : \A j \in 1..k : RetryableFailure(l[j])})

VideoDownloadOver == res.kind = "video" /\ res.stage \in {"downloaded", "done"}

\* C3: the engine is invoked once, plus once per consecutive retryable
\* failure before the first other outcome, and never more than 4 times.
C3_EngineInvocations ==
    VideoDownloadOver =>
        Len(log) = (IF 1 + LeadingRetryable(log) > 4 THEN 4
                    ELSE 1 + LeadingRetryable(log))

\* two retryable failures, then a definitive extraction failure: the loop is
\* left after the third invocation
C3_Witness ==
    /\ VideoDownloadOver
    /\ Len(log) = 3
    /\ log[1].out = "retryable"
    /\ log[2].out = "nofile"
    /\ log[3].out = "terminal"

IsArticlesGroup(g) ==
    /\ g.kind = "topic"
    /\ g.title = "Articles"
    /\ \E k \in 1..Len(g.children) : g.children[k].kind = "html5"

\* C4: Article.to_node returns, for every article, a Topic-kind wrapper that
\* holds an "Articles" sub-group with the HTML node in it; never the bare
\* HTML leaf.
C4_UniformWrapper ==
    apc = "done" =>
        /\ node.kind = "topic"
        /\ \E k \in 1..Len(node.children) : IsArticlesGroup(node.children[k])

KindsOf(nodes) == {nodes[k].kind : k \in 1..Len(nodes)}

\* C5: with p >= 0 PDF nodes and v >= 1 video nodes, the Document nodes are in
\* the "Articles" sub-group with the HTML node, and the Video nodes in a
\* sibling "Videos" sub-group that holds only them.
C5_VideosInSiblingGroup ==
    apc = "done" /\ Len(video_nodes) >= 1 =>
        /\ "video" \notin KindsOf(node.children)
        /\ \E a, v \in 1..Len(node.children) :
            /\ a /= v
            /\ IsArticlesGroup(node.children[a])
            /\ Range(pdf_nodes) \subseteq Range(node.children[a].children)
            /\ "video" \notin KindsOf(node.children[a].children)
            /\ node.children[v].title = "Videos"
            /\ Range(node.children[v].children) = Range(video_nodes)

\* C7: on a page without the body container to_file writes no archive entry,
\* the article yields no node, and no error leaves the article's processing.
C7_NoBodyFailsFast ==
    ~body.found /\ apc \in {"raised", "written", "done"} =>
        /\ archive = {}
        /\ node = NoNode
        /\ raised = "None"

ImgsOf(content) == SelectSeq(content, LAMBDA t : t.tag = "img" /\ t.has)

\* the source url an img src resolves to
ResolvedSrc(src) == IF src[1] = "/" THEN <<"https://ciencia.nasa.gov">> \o src ELSE src

\* C8: every img whose src resolves to the same source url ends with the
\* same local filename as its src, and the download map has exactly one
\* entry per distinct source url.
C8_SameUrlSameFilename ==
    apc \in {"written", "done"} =>
        LET before == ImgsOf(body.tags)
            after == ImgsOf(html.content)
        IN /\ Len(after) = Len(before)
           /\ \A j, k \in 1..Len(before) :
                ResolvedSrc(before[j].url) = ResolvedSrc(before[k].url)
                    => /\ after[j].url = after[k].url
                       /\ after[j].url /= before[j].url
           /\ {html.images[k][1] : k \in 1..Len(html.images)}
                = {ResolvedSrc(before[k].url) : k \in 1..Len(before)}
           /\ Len(html.images) = Cardinality({ResolvedSrc(before[k].url) : k \in 1..Len(before)})

\* C9: File.download sets a local path and writes bytes only for a response
\* whose content-type is exactly the PDF type; for any other response it
\* returns without raising, the path stays absent, nothing is written and
\* File.to_node returns no node.
C9_OnlyExactPdfContentType ==
    res.kind = "file" /\ res.stage \in {"done", "raised"}
        /\ res.resp /= <<"application/pdf">> =>
        /\ raised = "None"
        /\ res.filepath = NoPath
        /\ res.node = NoNode
        /\ Len(pdf_nodes) = res.before
        /\ res.before = 0
            => (PdfsPath(BASE_PATH) \o <<"/">> \o res.filename) \notin ExistingPaths

\* an attempt left a 0-byte file at the video's path and no later attempt
\* left a non-empty one
ZeroByteLeft ==
    \E k \in 1..Len(log) :
        /\ log[k].present = "empty"
        /\ \A j \in (k + 1)..Len(log) : log[j].present /= "full"

\* C10: after an attempt that left a 0-byte file, and no later attempt with
\* a non-empty file, the resource has no local path and build_video_nodes
\* adds no Video node for it.
C10_ZeroByteNoVideoNode ==
    VideoDownloadOver /\ ZeroByteLeft =>
        /\ res.filepath = NoPath
        /\ res.stage = "done" => res.node = NoNode /\ Len(video_nodes) = res.before

\* a 0-byte file after a retried attempt, and to_node has been called
C10_Witness ==
    /\ res.kind = "video"
    /\ res.stage = "done"
    /\ Len(log) = 2
    /\ log[1].out = "retryable"
    /\ log[2].out = "empty"
    /\ res.node = NoNode
    /\ video_nodes = <<>>

-----------------------------------------------------------------------------
\* Further claims about the chef's run (Spec)

\* C11: when scrape has finished, the children of the channel tree it
\* returns are the Topic nodes of the run, one per entry of TOPICS, in the
\* order the topics were processed.
C11_ChannelChildrenAreTopics ==
    pc = "done" =>
        /\ Len(channel_tree) = Len(TOPICS)
        /\ \A k \in 1..Len(TOPICS) :
            /\ channel_tree[k].kind = "topic"
            /\ channel_tree[k].title = TOPICS[k][1]

\* the fetch of the listing page came back with download()'s failure value
PageFetchFailed == Len(fetched) >= 2 /\ fetched[2].document = "False"

\* C13: when the fetch of a listing page has failed after download()'s 4
\* tries, no error is raised, the pagination loop stops with the stubs it
\* has, and the run goes on to Topic.to_node.
C13_FailedPageFetchHasNoRows ==
    PageFetchFailed =>
        /\ fetched[2].tries = 4
        /\ run_raised = "None"
        /\ pc \in {"to_node", "yielded", "done"}

-----------------------------------------------------------------------------
\* Further claims about one article (SpecArticle)

\* the engine returned info and os.stat found a 0-byte file
ZeroByteAttempt(e) == e.out \in {"full", "empty", "nofile"} /\ e.present = "empty"

\* C12: after an attempt that produced a 0-byte file, with fewer than 4
\* attempts made, the engine is invoked again: the download is over on a
\* 0-byte result only at the 4th attempt.
C12_ZeroByteIsRetried ==
    VideoDownloadOver =>
        \A k \in 1..Len(log) : ZeroByteAttempt(log[k]) /\ k < 4 => k < Len(log)

RECURSIVE NoSiblingsShareSourceId(_)
NoSiblingsShareSourceId(n) ==
    /\ \A j, k \in 1..Len(n.children) :
        j /= k => n.children[j].source_id /= n.children[k].source_id
    /\ \A k \in 1..Len(n.children) : NoSiblingsShareSourceId(n.children[k])

\* C14: in the node Article.to_node builds, no two children of the same
\* parent have the same source_id, whatever urls were harvested, and no
\* resource node has the source_id of the HTML node.
C14_SiblingSourceIdsDistinct ==
    apc = "done" =>
        /\ NoSiblingsShareSourceId(node)
        /\ \A n \in Range(video_nodes) \cup Range(pdf_nodes) : n.source_id /= ARTICLE_URL

====
